---- MODULE Spec2Model ----
(***************************************************************************)
(* Model of the synthetic query generation pipeline of Hexanomicon         *)
(* (src/generate_synthetic_queries.py): the resumable batch job that asks  *)
(* a remote LLM service for search queries per card, validates each        *)
(* response, appends accepted results to synthetic_queries_temp.jsonl and  *)
(* finally rewrites synthetic_queries.json.                                *)
(*                                                                         *)
(* Text (a file's content, a response body) is a sequence of tokens.  A    *)
(* token is a 4-tuple <<kind, tag, a, b>>:                                 *)
(*   <<"ch", x, 0, 0>>   the single character x outside a string literal   *)
(*                       ("bq" is the backquote, "x" any other letter)     *)
(*   <<"ws", " ", 0, 0>> a run of whitespace                               *)
(*   <<"str", tag, a, b>> a JSON string literal whose content is the       *)
(*                        Python string <<tag, a, b>>                      *)
(* A Python string is a triple <<tag, a, b>>: <<"name", c, 0>> is the name *)
(* of card c, <<"query", c, r>> is a query that the service wrote in       *)
(* answer to the prompt of card c during run r, <<"hq", 0, 0>> is the      *)
(* literal "hypothetical_queries".                                         *)
(* A Python value is a record [t, s, items]: t is its type, s its content  *)
(* when it is a str, items its elements when it is a list and its          *)
(* <<key, value>> pairs, in insertion order, when it is a dict.            *)
(***************************************************************************)
EXTENDS Integers, Sequences, FiniteSets, TLC

\* ------------------------------------------------------------------ bounds

\* batch_size of main (32 in the source), scaled down.
batch_size == 2

\* Number of runs of main that a behaviour may start.
MaxRuns == 2

\* Cards of the corpus: one full batch and one more card, so that a run
\* with an empty store dispatches two batches.
NCards == batch_size + 1

\* Longest array of queries among the responses given to the validator.
MaxQueries == 2

\* ------------------------------------------------------------ text, values

Ch(x) == <<"ch", x, 0, 0>>
WS == <<"ws", " ", 0, 0>>
StrTok(s) == <<"str", s[1], s[2], s[3]>>

HQ == <<"hq", 0, 0>>
CardName(c) == <<"name", c, 0>>
Query(c, r) == <<"query", c, r>>

PyNone == [t |-> "none", s |-> <<"", 0, 0>>, items |-> <<>>]
PyStr(s) == [t |-> "str", s |-> s, items |-> <<>>]
PyNum == [t |-> "num", s |-> <<"", 0, 0>>, items |-> <<>>]
PyNull == [t |-> "null", s |-> <<"", 0, 0>>, items |-> <<>>]
PyList(xs) == [t |-> "list", s |-> <<"", 0, 0>>, items |-> xs]
PyDict(kvs) == [t |-> "dict", s |-> <<"", 0, 0>>, items |-> kvs]

\* dict operations on the <<key, value>> pairs of a dict, in insertion order
DictKeys(kvs) == {kvs[n][1] : n \in 1..Len(kvs)}
DictHas(kvs, k) == \E n \in 1..Len(kvs) : kvs[n][1] = k
DictGet(kvs, k) == kvs[CHOOSE n \in 1..Len(kvs) : kvs[n][1] = k][2]
DictSet(kvs, k, v) ==
    IF DictHas(kvs, k)
    THEN [n \in 1..Len(kvs) |-> IF kvs[n][1] = k THEN <<k, v>> ELSE kvs[n]]
    ELSE Append(kvs, <<k, v>>)

\* str.strip(chars): drop the leading and trailing characters that are in
\* chars; str.strip() drops whitespace
Drops(tok, kind, set) == tok[1] = kind /\ tok[2] \in set

RECURSIVE LStrip(_, _, _)
LStrip(text, kind, set) ==
    IF text # <<>> /\ Drops(Head(text), kind, set)
    THEN LStrip(Tail(text), kind, set)
    ELSE text

RECURSIVE RStrip(_, _, _)
RStrip(text, kind, set) ==
    IF text # <<>> /\ Drops(text[Len(text)], kind, set)
    THEN RStrip(SubSeq(text, 1, Len(text) - 1), kind, set)
    ELSE text

StripWS(text) == RStrip(LStrip(text, "ws", {" "}), "ws", {" "})
StripChars(text, set) == RStrip(LStrip(text, "ch", set), "ch", set)

\* ------------------------------------------------------- json.loads / dumps

SkipWS(text) == LStrip(text, "ws", {" "})

ParseFail == [ok |-> FALSE, val |-> PyNone, rest |-> <<>>]
ParseOk(v, rest) == [ok |-> TRUE, val |-> v, rest |-> rest]

NullText == <<Ch("n"), Ch("u"), Ch("l"), Ch("l")>>

RECURSIVE ParseValue(_), ParseElems(_, _), ParseMembers(_, _)

\* one JSON value at the head of text
ParseValue(text0) ==
    LET text == SkipWS(text0) IN
    IF text = <<>> THEN ParseFail
    ELSE LET h == Head(text)
             r == Tail(text)
         IN  CASE h[1] = "str" -> ParseOk(PyStr(<<h[2], h[3], h[4]>>), r)
               [] h = Ch("0") -> ParseOk(PyNum, r)
               [] h = Ch("n") ->
                    IF Len(text) >= 4 /\ SubSeq(text, 1, 4) = NullText
                    THEN ParseOk(PyNull, SubSeq(text, 5, Len(text)))
                    ELSE ParseFail
               [] h = Ch("[") ->
                    IF SkipWS(r) # <<>> /\ Head(SkipWS(r)) = Ch("]")
                    THEN ParseOk(PyList(<<>>), Tail(SkipWS(r)))
                    ELSE ParseElems(r, <<>>)
               [] h = Ch("{") ->
                    IF SkipWS(r) # <<>> /\ Head(SkipWS(r)) = Ch("}")
                    THEN ParseOk(PyDict(<<>>), Tail(SkipWS(r)))
                    ELSE ParseMembers(r, <<>>)
               [] OTHER -> ParseFail

\* the elements of an array, after its "[" or after a ","
ParseElems(text, acc) ==
    LET v == ParseValue(text)
        r == SkipWS(v.rest)
    IN  IF ~v.ok \/ r = <<>> THEN ParseFail
        ELSE IF Head(r) = Ch(",") THEN ParseElems(Tail(r), Append(acc, v.val))
        ELSE IF Head(r) = Ch("]") THEN ParseOk(PyList(Append(acc, v.val)), Tail(r))
        ELSE ParseFail

\* the members of an object, after its "{" or after a ","; a repeated key
\* keeps its first position and its last value, as a Python dict does
ParseMembers(text, acc) ==
    LET t == SkipWS(text) IN
    IF t = <<>> \/ Head(t)[1] # "str" THEN ParseFail
    ELSE LET key == <<Head(t)[2], Head(t)[3], Head(t)[4]>>
             c == SkipWS(Tail(t))
         IN  IF c = <<>> \/ Head(c) # Ch(":") THEN ParseFail
             ELSE LET v == ParseValue(Tail(c))
                      r == SkipWS(v.rest)
                  IN  IF ~v.ok \/ r = <<>> THEN ParseFail
                      ELSE IF Head(r) = Ch(",")
                           THEN ParseMembers(Tail(r), DictSet(acc, key, v.val))
                      ELSE IF Head(r) = Ch("}")
                           THEN ParseOk(PyDict(DictSet(acc, key, v.val)), Tail(r))
                      ELSE ParseFail

\* json.loads / json.load: ok = FALSE stands for json.JSONDecodeError
json_loads(text) ==
    LET p == ParseValue(text) IN
    IF p.ok /\ SkipWS(p.rest) = <<>>
    THEN [ok |-> TRUE, val |-> p.val]
    ELSE [ok |-> FALSE, val |-> PyNone]

RECURSIVE json_dumps(_, _), DumpItems(_, _, _)

\* the items of a list (isDict = FALSE) or a dict, separated by "," and
\* whitespace
DumpItems(items, isDict, pretty) ==
    IF items = <<>> THEN <<>>
    ELSE LET one == IF isDict
                    THEN <<StrTok(Head(items)[1]), Ch(":"), WS>>
                         \o json_dumps(Head(items)[2], pretty)
                    ELSE json_dumps(Head(items), pretty)
         IN  IF Len(items) = 1 THEN one
             ELSE one \o <<Ch(","), WS>> \o DumpItems(Tail(items), isDict, pretty)

\* json.dumps(v) and, with pretty, json.dumps(v, indent=2)
json_dumps(v, pretty) ==
    LET open == IF pretty THEN <<WS>> ELSE <<>> IN
    CASE v.t = "str" -> <<StrTok(v.s)>>
      [] v.t = "num" -> <<Ch("0")>>
      [] v.t \in {"null", "none"} -> NullText
      [] v.t = "list" ->
           IF v.items = <<>> THEN <<Ch("["), Ch("]")>>
           ELSE <<Ch("[")>> \o open \o DumpItems(v.items, FALSE, pretty)
                \o open \o <<Ch("]")>>
      [] v.t = "dict" ->
           IF v.items = <<>> THEN <<Ch("{"), Ch("}")>>
           ELSE <<Ch("{")>> \o open \o DumpItems(v.items, TRUE, pretty)
                \o open \o <<Ch("}")>>

\* ---------------------------------------------------------------- validator

\* a faulty SchemaValid (a schema without "items"): the items of the array
\* are not looked at
SchemaValidAnyItems(data) ==
    /\ data.t = "dict"
    /\ DictHas(data.items, HQ)
    /\ DictGet(data.items, HQ).t = "list"

\* jsonschema.validate(data, schema) of postprocess: an object with the
\* required field hypothetical_queries, an array of strings
SchemaValid(data) ==
    /\ data.t = "dict"
    /\ DictHas(data.items, HQ)
    /\ LET hq == DictGet(data.items, HQ)
       IN  /\ hq.t = "list"
           /\ \A n \in 1..Len(hq.items) : hq.items[n].t = "str"

\* the list of queries of a raw response, or None
postprocess_synthetic_querygen_response(model_output) ==
    LET text == StripWS(StripChars(StripWS(StripChars(StripWS(model_output),
                    {"bq"})), {"j", "s", "o", "n"}))
        data == json_loads(text)
    IN  IF ~data.ok THEN PyNone
        ELSE IF ~SchemaValid(data.val) THEN PyNone
        ELSE DictGet(data.val.items, HQ)

\* ------------------------------------------------------------------ corpus

Cards == 1..NCards

\* dataset.card_names: the names of the corpus cards, in the corpus's order
card_names == [c \in Cards |-> CardName(c)]

\* format_card: the formatted text of a card begins with the card's name
format_card(name) == <<"card", name>>

\* dataset.formatted_cards
formatted_cards == [c \in Cards |-> format_card(CardName(c))]

FormattedCardOf(name) == formatted_cards[name[2]]

prepare_synthetic_querygen_prompt(formatted_card) == <<"prompt", formatted_card>>

\* the card a prompt describes, as the service reads it from the prompt
CardOfPrompt(prompt) == prompt[2][2][2]

\* a name that is a key of the store and no card of the corpus
StrayName == CardName(0)

\* ----------------------------------------------------------------- service

Fence == <<Ch("bq"), Ch("bq"), Ch("bq")>>

HQDoc(v) == <<Ch("{"), StrTok(HQ), Ch(":"), WS>> \o json_dumps(v, FALSE) \o <<Ch("}")>>

\* a fenced document with one query written for card c in run r
GoodText(c, r) ==
    Fence \o <<Ch("j"), Ch("s"), Ch("o"), Ch("n"), WS>>
          \o HQDoc(PyList(<<PyStr(Query(c, r))>>)) \o <<WS>> \o Fence

\* a document whose array of queries is empty
EmptyText == HQDoc(PyList(<<>>))

\* a document whose hypothetical_queries is a string
WrongTypeText(c, r) == HQDoc(PyStr(Query(c, r)))

\* a document cut off by the token ceiling: it does not parse
TruncatedText(c, r) == <<Ch("{"), StrTok(HQ), Ch(":"), WS, Ch("["), StrTok(Query(c, r)), Ch(",")>>

\* the kinds of text, other than a good answer, that a service may return
AltKinds == {"empty", "wrongtype", "truncated"}

AltText(kind, c, r) ==
    CASE kind = "empty" -> EmptyText
      [] kind = "wrongtype" -> WrongTypeText(c, r)
      [] kind = "truncated" -> TruncatedText(c, r)

\* response.choices[0].message.content of the completions that a service
\* whose other kind of answer is kind may return to a prompt in run r
ServiceTexts(kind, prompt, r) ==
    {GoodText(CardOfPrompt(prompt), r), AltText(kind, CardOfPrompt(prompt), r)}

\* ------------------------------------------------------------------- state

VARIABLES
    service,            \* the kind of answer, other than a good one, that
                        \* the service of this behaviour gives
    store,              \* synthetic_queries.json: [exists, text]
    temp_log,           \* synthetic_queries_temp.jsonl: its lines
    api_key,            \* OPENROUTER_API_KEY is set
    runs,               \* runs of main started so far
    pc,                 \* position of the running main; "idle": none runs
    outcome,            \* how the last run ended
    queries_data,       \* main's dict
    new_cards_to_query, \* main's list of pending card names
    new_cards_prompts,  \* main's list of their prompts
    cost_estimate,      \* in units of 1e-6 USD
    i,                  \* offset of the current batch
    inflight,           \* requests issued and not completed
    batch_responses,    \* by position in the batch: [done, text]
    decoded_responses,  \* by position in the batch: a list, or None
    k,                  \* position of the zip loop in the batch
    requested,          \* per card: requests issued in the current run
    verdict,            \* per card: what became of its request in this run
    start_store,        \* the store file when the running main started
    start_log_len,      \* the lines of the log when the last main started
    delays,             \* pacing delays elapsed since the last dispatch
    sample,             \* the response under validation: [wrap, doc, cut]
    result              \* what the validator returned for it: [set, val]

vars == <<service, store, temp_log, api_key, runs, pc, outcome, queries_data,
          new_cards_to_query, new_cards_prompts, cost_estimate, i, inflight,
          batch_responses, decoded_responses, k, requested, verdict,
          start_store, start_log_len, delays, sample, result>>

disk == <<store, temp_log>>
env == <<service, runs, sample, result>>
locals == <<queries_data, new_cards_to_query, new_cards_prompts, cost_estimate,
            i, batch_responses, decoded_responses, k>>
ghosts == <<requested, verdict, start_store, start_log_len, delays>>

Absent == [exists |-> FALSE, text |-> <<>>]
File(text) == [exists |-> TRUE, text |-> text]

OldList(c) == PyList(<<PyStr(Query(c, 0))>>)

\* the stores a first run may find: none, a damaged one, one with the
\* first corpus card and a stray card
InitStores ==
    { Absent,
      File(<<Ch("{")>>),
      File(json_dumps(PyDict(<< <<CardName(1), OldList(1)>>,
                                <<StrayName, OldList(0)>> >>), TRUE)) }

NoResponse == [done |-> FALSE, text |-> <<>>]

\* no response is under validation outside main
NoSample == [wrap |-> "none", doc |-> PyNone, cut |-> 0]
NoResult == [set |-> FALSE, val |-> PyNone]

\* the locals of a main that is not running, or has just started
LocalsReset ==
    /\ queries_data' = PyDict(<<>>)
    /\ new_cards_to_query' = <<>>
    /\ new_cards_prompts' = <<>>
    /\ cost_estimate' = 0
    /\ i' = 0
    /\ batch_responses' = <<>>
    /\ decoded_responses' = <<>>
    /\ k' = 0

Init ==
    /\ service \in AltKinds
    /\ store \in InitStores
    /\ temp_log = <<>>
    /\ api_key = FALSE
    /\ runs = 0
    /\ pc = "idle"
    /\ outcome = "none"
    /\ queries_data = PyDict(<<>>)
    /\ new_cards_to_query = <<>>
    /\ new_cards_prompts = <<>>
    /\ cost_estimate = 0
    /\ i = 0
    /\ inflight = {}
    /\ batch_responses = <<>>
    /\ decoded_responses = <<>>
    /\ k = 0
    /\ requested = [c \in Cards |-> 0]
    /\ verdict = [c \in Cards |-> "none"]
    /\ start_store = Absent
    /\ start_log_len = 0
    /\ delays = 0
    /\ sample = NoSample
    /\ result = NoResult

\* the process ends: its memory and its environment are gone and
\* asyncio.run has cancelled the requests still in flight
Exit(how) ==
    /\ pc' = "idle"
    /\ outcome' = how
    /\ inflight' = {}
    /\ api_key' = FALSE
    /\ requested' = [c \in Cards |-> 0]
    /\ verdict' = [c \in Cards |-> "none"]
    /\ start_store' = Absent
    /\ delays' = 0
    /\ LocalsReset
    /\ UNCHANGED start_log_len

\* ------------------------------------------------------------------ actions

Min(a, b) == IF a < b THEN a ELSE b

\* seq[lo:hi] of Python
Slice(seq, lo, hi) == SubSeq(seq, lo + 1, Min(hi, Len(seq)))

\* a process starts in some environment: asyncio.run(main()), up to and
\* including the loading of the corpus
StartRun ==
    /\ pc = "idle"
    /\ runs < MaxRuns
    /\ runs' = runs + 1
    /\ api_key' \in BOOLEAN
    /\ pc' = "load"
    /\ outcome' = "running"
    /\ start_store' = store
    /\ start_log_len' = Len(temp_log)
    /\ UNCHANGED <<service, sample, result, disk, locals, inflight,
                   requested, verdict, delays>>

\* a faulty LoadStore (except Exception): a file that does not parse is
\* taken as no file
LoadStoreLenient ==
    /\ pc = "load"
    /\ queries_data' = IF store.exists /\ json_loads(store.text).ok
                       THEN json_loads(store.text).val
                       ELSE PyDict(<<>>)
    /\ pc' = "check"
    /\ UNCHANGED <<outcome, inflight, new_cards_to_query, new_cards_prompts,
                   cost_estimate, i, batch_responses, decoded_responses, k,
                   api_key, ghosts, disk, env>>

\* queries_data = json.load(f), or {} when the file is not found
LoadStore ==
    /\ pc = "load"
    /\ IF ~store.exists \/ json_loads(store.text).ok
       THEN /\ queries_data' = IF store.exists
                               THEN json_loads(store.text).val
                               ELSE PyDict(<<>>)
            /\ pc' = "check"
            /\ UNCHANGED <<outcome, inflight, new_cards_to_query,
                           new_cards_prompts, cost_estimate, i,
                           batch_responses, decoded_responses, k, api_key,
                           ghosts>>
       ELSE Exit("store_error")
    /\ UNCHANGED <<disk, env>>

\* [card for card in dataset.card_names if card not in queries_data]
PendingCards(names, data) ==
    SelectSeq(names, LAMBDA name : ~DictHas(data.items, name))

TokensPerRequest == 500
\* 0.8 USD per million tokens, in tenths of a USD
PricePerMTokTenths == 8

\* a faulty CostEstimate: the number of prompts is left out
CostEstimateFlat(n) == (TokensPerRequest * PricePerMTokTenths) \div 10

\* len(new_cards_prompts) * 500 * 0.8 / 1_000_000 USD, in units of 1e-6 USD
CostEstimate(n) == (n * TokensPerRequest * PricePerMTokTenths) \div 10

\* a faulty AllCardsHaveQueries: the check compares the two sizes
AllCardsHaveQueriesBySize(names, data) == Len(data.items) = Len(names)

\* set(dataset.card_names).issubset(set(queries_data.keys()))
AllCardsHaveQueries(names, data) ==
    {names[n] : n \in 1..Len(names)} \subseteq DictKeys(data.items)

\* the check that every card has queries, then the pending list, the
\* prompts and the cost estimate
CheckAll ==
    /\ pc = "check"
    /\ IF AllCardsHaveQueries(card_names, queries_data)
       THEN Exit("noop")
       ELSE /\ new_cards_to_query' = PendingCards(card_names, queries_data)
            /\ new_cards_prompts' =
                 [n \in 1..Len(PendingCards(card_names, queries_data)) |->
                    prepare_synthetic_querygen_prompt(
                        FormattedCardOf(PendingCards(card_names, queries_data)[n]))]
            /\ cost_estimate' =
                 CostEstimate(Len(PendingCards(card_names, queries_data)))
            /\ pc' = "key"
            /\ UNCHANGED <<outcome, inflight, queries_data, i, batch_responses,
                           decoded_responses, k, api_key, ghosts>>
    /\ UNCHANGED <<disk, env>>

\* a faulty CheckKey: the client is built without the check of the key
CheckKeySkipped ==
    /\ pc = "key"
    /\ pc' = "loop"
    /\ UNCHANGED <<outcome, inflight, locals, api_key, ghosts, disk, env>>

\* api_key = os.getenv(...); raise ValueError when it is not set
CheckKey ==
    /\ pc = "key"
    /\ IF ~api_key
       THEN Exit("config_error")
       ELSE /\ pc' = "loop"
            /\ UNCHANGED <<outcome, inflight, locals, api_key, ghosts>>
    /\ UNCHANGED <<disk, env>>

batch_card_names == Slice(new_cards_to_query, i, i + batch_size)
batch_prompts == Slice(new_cards_prompts, i, i + batch_size)

\* the requests that the gather of this batch starts, one per prompt
BatchRequests ==
    {[batch |-> i, pos |-> n, prompt |-> batch_prompts[n]] :
        n \in 1..Len(batch_prompts)}

\* one more iteration of the batch loop: every request of the batch is
\* issued at once
Dispatch ==
    /\ pc = "loop"
    /\ i < Len(new_cards_to_query)
    /\ inflight' = inflight \cup BatchRequests
    /\ batch_responses' = [n \in 1..Len(batch_prompts) |-> NoResponse]
    /\ requested' = [c \in Cards |-> requested[c] +
                        Cardinality({q \in BatchRequests : CardOfPrompt(q.prompt) = c})]
    /\ delays' = 0
    /\ pc' = "gather"
    /\ UNCHANGED <<disk, env, api_key, outcome, queries_data,
                   new_cards_to_query, new_cards_prompts, cost_estimate, i,
                   decoded_responses, k, verdict, start_store, start_log_len>>

\* a faulty Respond (asyncio.as_completed in place of gather): the answers
\* are kept in the order in which they arrive
RespondInArrivalOrder(req, text) ==
    /\ pc = "gather"
    /\ req \in inflight
    /\ text \in ServiceTexts(service, req.prompt, runs)
    /\ inflight' = inflight \ {req}
    /\ batch_responses' =
         IF req.batch = i
         THEN [batch_responses EXCEPT
                 ![1 + Cardinality({n \in 1..Len(batch_responses) :
                                      batch_responses[n].done})] =
                     [done |-> TRUE, text |-> text]]
         ELSE batch_responses
    /\ verdict' = [verdict EXCEPT ![CardOfPrompt(req.prompt)] =
                     IF postprocess_synthetic_querygen_response(text) = PyNone
                     THEN "rejected" ELSE "valid"]
    /\ UNCHANGED <<disk, env, api_key, pc, outcome, queries_data,
                   new_cards_to_query, new_cards_prompts, cost_estimate, i,
                   decoded_responses, k, requested, start_store,
                   start_log_len, delays>>

\* the service answers one request that is in flight
Respond(req, text) ==
    /\ pc = "gather"
    /\ req \in inflight
    /\ text \in ServiceTexts(service, req.prompt, runs)
    /\ inflight' = inflight \ {req}
    /\ batch_responses' =
         IF req.batch = i
         THEN [batch_responses EXCEPT ![req.pos] = [done |-> TRUE, text |-> text]]
         ELSE batch_responses
    /\ verdict' = [verdict EXCEPT ![CardOfPrompt(req.prompt)] =
                     IF postprocess_synthetic_querygen_response(text) = PyNone
                     THEN "rejected" ELSE "valid"]
    /\ UNCHANGED <<disk, env, api_key, pc, outcome, queries_data,
                   new_cards_to_query, new_cards_prompts, cost_estimate, i,
                   decoded_responses, k, requested, start_store,
                   start_log_len, delays>>

\* one request raises (timeout, non-success status): gather raises it in
\* main, which nothing catches
RequestFails(req) ==
    /\ pc = "gather"
    /\ req \in inflight
    /\ Exit("transport_error")
    /\ UNCHANGED <<disk, env>>

\* a faulty GatherDone: the wait returns as soon as one request of the
\* batch is done
GatherDoneFirst == \E n \in 1..Len(batch_responses) : batch_responses[n].done

\* await asyncio.gather(*batch_futures) returns when no request of the
\* batch is in flight
GatherDone == inflight = {}

\* the gather returns and every response is decoded
Decode ==
    /\ pc = "gather"
    /\ GatherDone
    /\ decoded_responses' =
         [n \in 1..Len(batch_responses) |->
            postprocess_synthetic_querygen_response(batch_responses[n].text)]
    /\ k' = 1
    /\ pc' = "record"
    /\ UNCHANGED <<disk, env, api_key, outcome, queries_data,
                   new_cards_to_query, new_cards_prompts, cost_estimate, i,
                   inflight, batch_responses, ghosts>>

\* a faulty Record: the accepted output is kept in memory and not appended
\* to the incremental log
RecordWithoutLog ==
    /\ pc = "record"
    /\ k <= Min(Len(batch_card_names), Len(decoded_responses))
    /\ IF decoded_responses[k] = PyNone
       THEN UNCHANGED queries_data
       ELSE queries_data' = PyDict(DictSet(queries_data.items,
                                   batch_card_names[k], decoded_responses[k]))
    /\ k' = k + 1
    /\ pc' = IF k = Min(Len(batch_card_names), Len(decoded_responses))
             THEN "sleep" ELSE "record"
    /\ UNCHANGED <<disk, env, api_key, outcome, new_cards_to_query,
                   new_cards_prompts, cost_estimate, i, inflight,
                   batch_responses, decoded_responses, ghosts>>

\* one iteration of the loop over zip(batch_card_names, decoded_responses)
Record ==
    /\ pc = "record"
    /\ k <= Min(Len(batch_card_names), Len(decoded_responses))
    /\ IF decoded_responses[k] = PyNone
       THEN UNCHANGED <<queries_data, temp_log>>
       ELSE /\ queries_data' = PyDict(DictSet(queries_data.items,
                                   batch_card_names[k], decoded_responses[k]))
            /\ temp_log' = Append(temp_log,
                   json_dumps(PyDict(<< <<batch_card_names[k],
                                          decoded_responses[k]>> >>), FALSE))
    /\ k' = k + 1
    /\ pc' = IF k = Min(Len(batch_card_names), Len(decoded_responses))
             THEN "sleep" ELSE "record"
    /\ UNCHANGED <<store, env, api_key, outcome, new_cards_to_query,
                   new_cards_prompts, cost_estimate, i, inflight,
                   batch_responses, decoded_responses, ghosts>>

\* a faulty Sleep: the next value of i without the time.sleep(1)
SleepSkipped ==
    /\ pc = "sleep"
    /\ i' = i + batch_size
    /\ batch_responses' = <<>>
    /\ decoded_responses' = <<>>
    /\ k' = 0
    /\ pc' = "loop"
    /\ UNCHANGED <<disk, env, api_key, outcome, queries_data,
                   new_cards_to_query, new_cards_prompts, cost_estimate,
                   inflight, ghosts>>

\* time.sleep(1), then the next value of i; the responses of the batch are
\* dead from here on
Sleep ==
    /\ pc = "sleep"
    /\ i' = i + batch_size
    /\ batch_responses' = <<>>
    /\ decoded_responses' = <<>>
    /\ k' = 0
    /\ delays' = delays + 1
    /\ pc' = "loop"
    /\ UNCHANGED <<disk, env, api_key, outcome, queries_data,
                   new_cards_to_query, new_cards_prompts, cost_estimate,
                   inflight, requested, verdict, start_store, start_log_len>>

\* the batch loop is over
LoopEnd ==
    /\ pc = "loop"
    /\ i >= Len(new_cards_to_query)
    /\ pc' = "final_open"
    /\ UNCHANGED <<disk, env, api_key, outcome, locals, inflight, ghosts>>

\* open("synthetic_queries.json", "w") creates or truncates the file
FinalOpen ==
    /\ pc = "final_open"
    /\ store' = File(<<>>)
    /\ pc' = "final_write"
    /\ UNCHANGED <<temp_log, env, api_key, outcome, locals, inflight, ghosts>>

\* f.write(json.dumps(queries_data, indent=2)), the file is closed and main
\* returns
FinalWrite ==
    /\ pc = "final_write"
    /\ store' = File(json_dumps(queries_data, TRUE))
    /\ Exit("written")
    /\ UNCHANGED <<temp_log, env>>

\* the process is terminated from outside
Kill ==
    /\ pc # "idle"
    /\ Exit("killed")
    /\ UNCHANGED <<disk, env>>

Next ==
    \/ StartRun
    \/ LoadStore
    \/ CheckAll
    \/ CheckKey
    \/ Dispatch
    \/ \E req \in inflight : \E text \in ServiceTexts(service, req.prompt, runs) :
          Respond(req, text)
    \/ \E req \in inflight : RequestFails(req)
    \/ Decode
    \/ Record
    \/ Sleep
    \/ LoopEnd
    \/ FinalOpen
    \/ FinalWrite
    \/ Kill

Spec == Init /\ [][Next]_vars

\* ----------------------------------------------------- reading the files

\* a file that is there and does not parse
Corrupt(file) == file.exists /\ ~json_loads(file.text).ok

\* the mapping that a file holds (none when it is absent or does not parse)
StoreDict(file) ==
    LET data == json_loads(file.text) IN
    IF file.exists /\ data.ok /\ data.val.t = "dict"
    THEN data.val.items
    ELSE <<>>

StoreKeys(file) == DictKeys(StoreDict(file))

\* the card names of the records of the incremental log
LogNames(log) == {json_loads(log[n]).val.items[1][1] : n \in 1..Len(log)}

CorpusNames == {card_names[c] : c \in Cards}

NoRequests == \A c \in Cards : requested[c] = 0

\* a step that ends a run otherwise than by a termination from outside
Exits == pc # "idle" /\ pc' = "idle" /\ outcome' # "killed"

\* the batch of card c in the running main (0 when c is not pending)
BatchOf(c) ==
    IF \E n \in 1..Len(new_cards_to_query) : new_cards_to_query[n] = CardName(c)
    THEN 1 + ((CHOOSE n \in 1..Len(new_cards_to_query) :
                    new_cards_to_query[n] = CardName(c)) - 1) \div batch_size
    ELSE 0

\* the exit status of the process of a run that ended with outcome how:
\* main returns None from its early return and from its end alike, and an
\* exception that leaves main ends the process with a failure status
ExitStatus(how) == IF how \in {"noop", "written"} THEN 0 ELSE 1

\* ------------------------------------------------------------------ claims

\* C1 (as claimed): a run that finds a readable store holding entries for
\* the set S of cards, and that is not stopped by a missing credential or
\* from outside, has issued, when it ends, exactly one request for every
\* corpus card outside S and none for a card in S.
C1_Claim ==
    [][(Exits /\ ~Corrupt(start_store) /\ outcome' # "config_error")
         => \A c \in Cards :
               requested[c] = IF CardName(c) \in StoreKeys(start_store)
                              THEN 0 ELSE 1]_vars

\* C2 (as claimed): a card whose result an earlier run appended to the
\* incremental log is not pending in a run that is about to dispatch its
\* first batch.
C2_Claim ==
    (pc = "loop" /\ i = 0) =>
        \A n \in 1..Len(new_cards_to_query) :
            new_cards_to_query[n] \notin LogNames(temp_log)

\* C3 (as claimed): the failure of one request does not end the run.
C3_Claim == outcome # "transport_error"

\* C4 (as claimed): when a run ends (not stopped from outside) in which the
\* service returned a rejected text for a card, every card of the same batch
\* whose response validates is in the consolidated store, and the rejected
\* card is in neither the store nor the incremental log.
C4_Claim ==
    [][Exits =>
         \A c \in Cards : verdict[c] = "rejected" =>
            /\ CardName(c) \notin StoreKeys(store')
            /\ CardName(c) \notin LogNames(temp_log')
            /\ \A d \in Cards :
                 (verdict[d] = "valid" /\ BatchOf(d) = BatchOf(c))
                    => CardName(d) \in StoreKeys(store')]_vars

\* C5: a run that finds a store with an entry for every corpus card issues
\* no request, leaves the consolidated store and the incremental log as they
\* are and, unless stopped from outside, returns as a no-op.
C5_Idempotent ==
    [][(pc # "idle" /\ CorpusNames \subseteq StoreKeys(start_store))
         => /\ store' = store
            /\ temp_log' = temp_log
            /\ inflight' = {}
            /\ NoRequests'
            /\ pc' \in {"check", "idle"}
            /\ Exits => outcome' = "noop"]_vars

\* a second run has returned as a no-op
C5_Witness == pc = "idle" /\ outcome = "noop" /\ runs = 2

\* C6 (as claimed): when a run ends, however it ends, every card that had
\* an entry in the consolidated store when the run started still has that
\* entry, with the same query list.
C6_Claim ==
    [][(pc # "idle" /\ pc' = "idle")
         => \A name \in StoreKeys(start_store) :
               /\ name \in StoreKeys(store')
               /\ DictGet(StoreDict(store'), name)
                    = DictGet(StoreDict(start_store), name)]_vars

\* C7 (as claimed): while a run goes on, the consolidated store is the file
\* that the run found or a complete document.
C7_Claim ==
    pc # "idle" => (store = start_store \/ (store.exists /\ ~Corrupt(store)))

\* C8: a run that finds no store file goes on with an empty mapping and
\* every corpus card pending; a run that finds a store file that does not
\* parse ends with the store error (unless stopped from outside) having
\* issued no request and written neither file.
C8_LoadStore ==
    [][/\ (pc = "load" /\ ~start_store.exists)
            => \/ pc' = "idle" /\ outcome' = "killed"
               \/ pc' = "check" /\ queries_data' = PyDict(<<>>)
       /\ (pc = "check" /\ ~start_store.exists)
            => \/ pc' = "idle" /\ outcome' = "killed"
               \/ pc' = "key" /\ new_cards_to_query' = card_names
       /\ (pc # "idle" /\ Corrupt(start_store))
            => /\ pc = "load"
               /\ pc' = "idle"
               /\ outcome' \in {"store_error", "killed"}
               /\ store' = store
               /\ temp_log' = temp_log
               /\ inflight' = {}
               /\ NoRequests']_vars

\* a run has ended with the store error on a file that an earlier run left
C8_Witness == pc = "idle" /\ outcome = "store_error" /\ Corrupt(store)

\* C9 (as claimed): a run without the credential, whose store loads and
\* which is not stopped from outside, ends with the configuration error.
C9_Claim ==
    [][(Exits /\ ~api_key /\ ~Corrupt(start_store))
         => outcome' = "config_error"]_vars

\* C9 (amended): a run without the credential issues no request and writes
\* neither file; unless stopped from outside it ends with the store error
\* when the store does not parse, as a no-op when the store has an entry for
\* every corpus card, and with the configuration error otherwise.
C9_NoCredential ==
    [][(pc # "idle" /\ ~api_key)
         => /\ store' = store
            /\ temp_log' = temp_log
            /\ inflight' = {}
            /\ NoRequests'
            /\ Exits =>
                 outcome' = IF Corrupt(start_store) THEN "store_error"
                            ELSE IF CorpusNames \subseteq StoreKeys(start_store)
                                 THEN "noop"
                            ELSE "config_error"]_vars

\* a run has ended with the configuration error
C9_Witness == pc = "idle" /\ outcome = "config_error"

\* C10: the requests in flight all belong to the current batch, and there
\* are at most batch_size of them.
C10_BatchBarrier ==
    /\ \A a \in inflight : a.batch = i
    /\ Cardinality(inflight) <= batch_size

\* a request of the second batch is in flight
C10_Witness == inflight # {} /\ i = batch_size

\* C11 (as claimed): a card whose accepted result an earlier run recorded in
\* the incremental log is not requested by a later run; stated while the
\* first batch of a run is in flight, when the log holds records of earlier
\* runs only.
C11_Claim ==
    (pc = "gather" /\ i = 0) =>
        \A c \in Cards :
            CardName(c) \in LogNames(temp_log) => requested[c] = 0

\* ------------------------------------------- the validator on its own

\* the arrays of at most MaxQueries query strings
QueryLists ==
    UNION {[1..n -> {PyStr(Query(1, 1)), PyStr(Query(2, 1))}] : n \in 0..MaxQueries}

\* documents that are an object whose hypothetical_queries is an array of
\* strings, alone or beside another field
GoodDocs ==
    {PyDict(<< <<HQ, PyList(l)>> >>) : l \in QueryLists}
    \cup {PyDict(<< <<CardName(1), PyNum>>, <<HQ, PyList(l)>> >>) : l \in QueryLists}

\* documents that parse and are not that: an item that is no string, a
\* field that is no array, no such field, no object
BadDocs ==
    {PyDict(<< <<HQ, PyList(<<PyStr(Query(1, 1)), x>>)>> >>) :
        x \in {PyNum, PyNull, PyList(<<>>)}}
    \cup {PyDict(<< <<HQ, x>> >>) :
            x \in {PyStr(Query(1, 1)), PyNum, PyNull, PyDict(<<>>)}}
    \cup {PyDict(<<>>), PyDict(<< <<CardName(1), PyList(<<PyStr(Query(1, 1))>>)>> >>)}
    \cup {PyList(<<PyStr(Query(1, 1))>>), PyStr(HQ), PyNum, PyNull}

JsonTag == <<Ch("j"), Ch("s"), Ch("o"), Ch("n")>>

\* what surrounds the document in a response: nothing, whitespace, a code
\* fence without and with the json tag, an opening fence alone, and the
\* json tag without any fence
FenceWraps == {"bare", "spaces", "fence", "fence_json", "open_fence"}
Wraps == FenceWraps \cup {"tag"}

Wrap(wrap, body) ==
    CASE wrap = "bare" -> body
      [] wrap = "spaces" -> <<WS>> \o body \o <<WS>>
      [] wrap = "fence" -> Fence \o <<WS>> \o body \o <<WS>> \o Fence
      [] wrap = "fence_json" ->
           <<WS>> \o Fence \o JsonTag \o <<WS>> \o body \o <<WS>> \o Fence \o <<WS>>
      [] wrap = "open_fence" -> Fence \o JsonTag \o <<WS>> \o body
      [] wrap = "tag" -> JsonTag \o <<WS>> \o body

\* the responses given to the validator: a document, whole or cut off
\* before its last token, in a wrapping
Samples ==
    [wrap : Wraps, doc : GoodDocs \cup BadDocs, cut : {0, 1}]

\* response.choices[0].message.content of a sample
RawText(smp) ==
    LET body == json_dumps(smp.doc, FALSE)
    IN  Wrap(smp.wrap, SubSeq(body, 1, Len(body) - smp.cut))

InitValidator ==
    /\ sample \in Samples
    /\ result = NoResult
    /\ service = "empty"
    /\ store = Absent
    /\ temp_log = <<>>
    /\ api_key = FALSE
    /\ runs = 0
    /\ pc = "idle"
    /\ outcome = "none"
    /\ queries_data = PyDict(<<>>)
    /\ new_cards_to_query = <<>>
    /\ new_cards_prompts = <<>>
    /\ cost_estimate = 0
    /\ i = 0
    /\ inflight = {}
    /\ batch_responses = <<>>
    /\ decoded_responses = <<>>
    /\ k = 0
    /\ requested = [c \in Cards |-> 0]
    /\ verdict = [c \in Cards |-> "none"]
    /\ start_store = Absent
    /\ start_log_len = 0
    /\ delays = 0

\* postprocess_synthetic_querygen_response(response.choices[0].message.content)
Validate ==
    /\ ~result.set
    /\ sample # NoSample
    /\ result' = [set |-> TRUE,
                  val |-> postprocess_synthetic_querygen_response(RawText(sample))]
    /\ UNCHANGED <<sample, service, runs, disk, api_key, pc, outcome, locals,
                   inflight, ghosts>>

SpecValidator == InitValidator /\ [][Validate]_vars

C13_Claim ==
    [][(Exits /\ outcome' = "written"
              /\ ~(CorpusNames \subseteq StoreKeys(store')))
         => ExitStatus(outcome') # ExitStatus("noop")]_vars

\* C14: once a run has computed its estimate, the estimate is the number of
\* pending cards times the cost of 500 tokens at 0.8 USD per million
\* tokens, which makes it zero for no card and additive in the number of
\* cards; and whatever the estimate, a run in its batch loop with cards
\* left can dispatch the next batch.
C14_CostEstimate ==
    LET perCard == (TokensPerRequest * PricePerMTokTenths) \div 10 IN
    /\ pc \notin {"idle", "load", "check"}
         => cost_estimate = Len(new_cards_to_query) * perCard
    /\ CostEstimate(0) = 0
    /\ \A n, m \in 0..NCards :
         CostEstimate(n + m) = CostEstimate(n) + CostEstimate(m)
    /\ (pc = "loop" /\ i < Len(new_cards_to_query)) => ENABLED Dispatch

\* a run with an estimate above zero has requests in flight
C14_Witness == cost_estimate > 0 /\ inflight # {}

\* C15 (as claimed): at every point of a run, the cards whose accepted
\* response has been received have their record in the incremental log,
\* but for at most one card, whose response is being validated and
\* recorded.
C15_Claim ==
    Cardinality({c \in Cards : /\ verdict[c] = "valid"
                               /\ CardName(c) \notin LogNames(temp_log)}) <= 1

\* ------------------------------------------------- repeated invocation

\* a run of the time when the service answers every card with accepted
\* output, in an environment with the credential: the runs from number
\* MaxRuns on
GoodRun == runs = MaxRuns

\* one more process starts, the counter of runs standing at MaxRuns
StartRunAgain ==
    /\ pc = "idle"
    /\ runs = MaxRuns
    /\ api_key' = TRUE
    /\ pc' = "load"
    /\ outcome' = "running"
    /\ start_store' = store
    /\ start_log_len' = Len(temp_log)
    /\ UNCHANGED <<env, disk, locals, inflight, requested, verdict, delays>>

\* the runs of main, invoked again and again: the first runs in any
\* environment, the good runs with the credential, answered with accepted
\* output only and not terminated from outside
RepeatedNext ==
    \/ StartRun /\ (runs' = MaxRuns => api_key')
    \/ StartRunAgain
    \/ LoadStore
    \/ CheckAll
    \/ CheckKey
    \/ Dispatch
    \/ \E req \in inflight : \E text \in ServiceTexts(service, req.prompt, runs) :
          /\ GoodRun => text = GoodText(CardOfPrompt(req.prompt), runs)
          /\ Respond(req, text)
    \/ \E req \in inflight : ~GoodRun /\ RequestFails(req)
    \/ Decode
    \/ Record
    \/ Sleep
    \/ LoopEnd
    \/ FinalOpen
    \/ FinalWrite
    \/ ~GoodRun /\ Kill

\* a first run finds no store or a store that parses
InitRepeated == Init /\ ~Corrupt(store)

SpecRepeated == InitRepeated /\ [][RepeatedNext]_vars

\* C16 (as claimed): when the first run finds no store or a store that
\* parses, then whatever the earlier runs did, a run of the time when the
\* service answers every card with accepted output ends with an entry for
\* every corpus card in the consolidated store; the runs after it find
\* that store, so that the repeated runs have converged.
C16_Claim ==
    [][(GoodRun /\ Exits) => CorpusNames \subseteq StoreKeys(store')]_vars

\* every query of the list was written in answer to the prompt of the card
\* called name
OwnQueries(name, list) ==
    \A n \in 1..Len(list.items) :
        list.items[n].s[1] = "query" => list.items[n].s[2] = name[2]

OwnQueriesIn(kvs) == \A n \in 1..Len(kvs) : OwnQueries(kvs[n][1], kvs[n][2])

\* C17: in whatever order the requests of a batch complete, every entry of
\* the in-memory mapping, every record of the incremental log and every
\* entry of the consolidated store holds, under a card's name, queries
\* written in answer to the prompt of that card.
C17_KeyedByCard ==
    /\ OwnQueriesIn(queries_data.items)
    /\ \A n \in 1..Len(temp_log) : OwnQueriesIn(json_loads(temp_log[n]).val.items)
    /\ OwnQueriesIn(StoreDict(store))

\* the second request of a batch has completed before the first, and its
\* answer is held at the second position
C17_Witness ==
    /\ pc = "gather"
    /\ Len(batch_responses) >= 2
    /\ ~batch_responses[1].done
    /\ batch_responses[2].done
    /\ batch_responses[2].text = GoodText(batch_card_names[2][2], runs)

\* the <<card name, queries>> pairs of the records of the incremental log
\* from line lo on
LogPairsFrom(log, lo) ==
    [n \in 1..(Len(log) - lo + 1) |-> json_loads(log[lo + n - 1]).val.items[1]]

NonEmptyLists(kvs) == \A n \in 1..Len(kvs) : kvs[n][2].items # <<>>

\* C19 (as claimed): every entry of a consolidated store that parses and
\* every record of the incremental log holds a list of at least one query
\* (the stores of the initial states hold none that is empty).
C19_Claim ==
    /\ NonEmptyLists(StoreDict(store))
    /\ \A n \in 1..Len(temp_log) : NonEmptyLists(json_loads(temp_log[n]).val.items)

\* C20: when a run is about to dispatch a batch after another, one pacing
\* delay and no more has elapsed since the results of the batch before
\* were recorded; while the delay is due or in progress no request is in
\* flight and none can be issued; and no delay has elapsed while requests
\* are in flight.
C20_Pacing ==
    /\ (pc = "loop" /\ i > 0) => delays = 1
    /\ pc = "sleep" => (inflight = {} /\ delays = 0 /\ ~ENABLED Dispatch)
    /\ inflight # {} => delays = 0

\* one delay has elapsed and the second batch is about to be dispatched
C20_Witness ==
    /\ pc = "loop"
    /\ i = batch_size
    /\ i < Len(new_cards_to_query)
    /\ delays = 1

====
